---- MODULE Spec2Model ----
(***************************************************************************)
(* Entity caching and object-graph layer of the helly client: the bounded  *)
(* cache (LimitedMap), the managers that own one cache each, the Channel   *)
(* and Message structures with their cross-reference accessors, and the    *)
(* outbound operations that suspend on the network.                        *)
(***************************************************************************)
EXTENDS Integers, Sequences, FiniteSets, TLC

\* ------------------------------------------------------------------ bounds

\* Largest configured capacity of a cache (0 means unbounded).
MaxLimit == 2

\* Largest configured capacity of the client's managers (0 means unbounded).
MaxClientLimit == 1

\* Values stored in the stand-alone cache are 1..MaxVal.
MaxVal == 2

\* Keys offered to the stand-alone cache.
CacheKeys == {"a", "b", "c", "d"}

\* Most objects of one kind ever constructed in a run.
MaxChannels == 2
MaxGuilds == 2
MaxUsers == 2
MaxMessages == 1

\* Most outbound operations in flight at once.
MaxPending == 1

\* Identity keys and field values carried by the payloads of a run.
ChannelIds == {"10", "11"}
GuildIds == {"g1", "g2"}
UserIds == {"u1"}
MessageIds == {"m1"}
Names == {"general", "general-renamed"}
Usernames == {"ann"}
Contents == {"hi", "edited"}

\* A field value that is not there (JavaScript undefined).
Absent == "absent"

\* An object reference that is not there; references are heap indices >= 1.
None == 0

\* The payload that is not there at all (typeof data === 'undefined').
Undefined == [undefined |-> TRUE]

IsUndefined(data) == "undefined" \in DOMAIN data

\* data.f: the field's value, or undefined when the payload does not name it.
Field(data, f) == IF f \in DOMAIN data THEN data[f] ELSE Absent

\* { ...a, ...b }: every field of b, and the fields of a that b does not name.
Spread(a, b) ==
  [f \in DOMAIN a \cup DOMAIN b |-> IF f \in DOMAIN b THEN b[f] ELSE a[f]]

\* ------------------------------------------------- LimitedMap (utils/LimitedMap)
\* A Map with a limit: entries are kept in insertion order, as <<key, value>>
\* records; the first entry is the oldest surviving insertion.

LMKeys(m) == [i \in 1..Len(m) |-> m[i].key]

LMHas(m, k) == \E i \in 1..Len(m) : m[i].key = k

LMIndex(m, k) == CHOOSE i \in 1..Len(m) : m[i].key = k

LMGet(m, k) == IF LMHas(m, k) THEN m[LMIndex(m, k)].value ELSE None

LMSize(m) == Len(m)

\* Drop oldest entries until a new one fits under the limit n (n = 0: never).
RECURSIVE LMEvict(_, _)
LMEvict(m, n) ==
  IF n > 0 /\ Len(m) >= n THEN LMEvict(Tail(m), n) ELSE m

\* A plausible slip: a write to an existing key re-inserts it at the back.
LMSetMoveToBack(m, n, k, v) ==
  LET rest == SelectSeq(m, LAMBDA e : e.key # k)
  IN  Append(IF LMHas(m, k) THEN rest ELSE LMEvict(m, n), [key |-> k, value |-> v])

\* A plausible slip: the capacity test is off by one and admits limit + 1 entries.
LMSetOffByOne(m, n, k, v) ==
  IF LMHas(m, k)
  THEN [m EXCEPT ![LMIndex(m, k)].value = v]
  ELSE Append(IF n > 0 /\ Len(m) > n THEN Tail(m) ELSE m, [key |-> k, value |-> v])

\* set(key, value): replace in place, or evict the oldest and append.
LMSet(m, n, k, v) ==
  IF LMHas(m, k)
  THEN [m EXCEPT ![LMIndex(m, k)].value = v]
  ELSE Append(LMEvict(m, n), [key |-> k, value |-> v])

\* delete(key): remove if present, no-op otherwise.
LMDelete(m, k) == SelectSeq(m, LAMBDA e : e.key # k)

\* --------------------------------------------- Channel (structures/Channel)

\* RawChannelTypes[t] ?? 'UNKNOWN' (wire numbers are written as strings).
RawChannelTypes(t) ==
  CASE t = "0" -> "GUILD_TEXT"
    [] t = "2" -> "GUILD_VOICE"
    [] OTHER -> Absent

\* Snowflake.deconstruct(id): the creation time, a function of the id.
deconstruct(id) == IF id = Absent THEN "NaN" ELSE "ts:" \o id

\* The fields of a Channel before its constructor has parsed anything.
ChannelFields(guild) ==
  [id |-> Absent, name |-> Absent, type |-> Absent,
   createdTimestamp |-> Absent, guild |-> guild]

\* Channel.parseData(data). `throws` says whether Snowflake.deconstruct
\* throws on an undefined id (otherwise it yields NaN).
Channel_parseData(this, data, throws) ==
  IF IsUndefined(data) THEN [obj |-> this, threw |-> FALSE]
  ELSE
    LET a == IF "id" \in DOMAIN data THEN [this EXCEPT !.id = data.id] ELSE this
    IN  IF a.id = Absent /\ throws THEN [obj |-> a, threw |-> TRUE]
        ELSE
          LET b == [a EXCEPT !.createdTimestamp = deconstruct(a.id)]
              c == IF "name" \in DOMAIN data THEN [b EXCEPT !.name = data.name] ELSE b
              t == RawChannelTypes(Field(data, "type"))
          IN  [obj |-> [c EXCEPT !.type = IF t = Absent THEN "UNKNOWN" ELSE t],
               threw |-> FALSE]

\* new Channel(client, data, guild)
Channel_constructor(data, guild, throws) ==
  Channel_parseData(ChannelFields(guild), data, throws)

\* Channel.isText()
Channel_isText(this) == this.type = "GUILD_TEXT"

\* Channel.isUnknown()
Channel_isUnknown(this) == this.type = "UNKNOWN"

\* ------------------------------------------- Message (structures/Message)

\* A plausible slip: the payload replaces the stored data instead of merging.
Message_parseDataReplacing(this, data) ==
  IF IsUndefined(data) THEN this ELSE [this EXCEPT !.data = data]

\* Message.parseData(data)
Message_parseData(this, data) ==
  IF IsUndefined(data) THEN this ELSE [this EXCEPT !.data = Spread(this.data, data)]

\* new Message(client, data)
Message_constructor(data) == [data |-> data]

\* --------------------------------------- DataManager (structures/DataManager)

\* updateOrSet(id, data): update the cached entity in place, or construct one
\* and set it. `made` is the entity the constructor builds from the payload,
\* `merged` the cached entity after its update.
updateOrSet(heap, map, n, id, made, merged) ==
  IF LMHas(map, id)
  THEN [heap |-> [heap EXCEPT ![LMGet(map, id)] = merged],
        map  |-> map,
        ref  |-> LMGet(map, id)]
  ELSE [heap |-> Append(heap, made),
        map  |-> LMSet(map, n, id, Len(heap) + 1),
        ref  |-> Len(heap) + 1]

\* ------------------------------------------------------------------- state

VARIABLES
  cache,      \* a stand-alone LimitedMap
  limit,      \* the configured limit of that map and of every manager's cache
  last,       \* the operation performed last, and its outcome
  sfThrows,   \* whether Snowflake.deconstruct throws on an undefined id
  chanHeap,   \* every Channel object constructed so far
  channels,   \* client.channels.cache: channel id -> Channel reference
  guildHeap,  \* every Guild object constructed so far
  guilds,     \* client.guilds.cache: guild id -> Guild reference
  userHeap,   \* every User object constructed so far
  users,      \* client.users.cache: user id -> User reference
  msgHeap,    \* every Message object constructed so far
  pending,    \* outbound operations awaiting the remote service
  options,    \* client.options.failIfNotExists
  request,    \* the request whose response the transport is verifying
  raised      \* what the verification of that response raised

vars == <<cache, limit, last, sfThrows, chanHeap, channels, guildHeap, guilds,
          userHeap, users, msgHeap, pending, options, request, raised>>

\* What no operation on the caches or the entities writes.
env == <<sfThrows, options, request, raised>>

entities == <<chanHeap, channels, guildHeap, guilds, userHeap, users, msgHeap>>

\* A request body: undefined, null, a string, or an object (FormData, Buffer).
Body(kind, text) == [kind |-> kind, text |-> text]

\* No request made yet.
NoRequest == [endpoint |-> Absent, method |-> Absent, data |-> Body("undefined", ""),
              code |-> 0, json |-> Undefined]

\* The parts of an Error's message, as the template strings lay them out:
\* "DiscordAPIError: <name> (<code>)\nEndpoint: ...\nMethod: ...\nData: ...".
ErrorText(name, code, endpoint, method, data) ==
  [name |-> name, code |-> code, endpoint |-> endpoint, method |-> method,
   data |-> data]

\* The function returned without throwing.
Returned == [threw |-> FALSE, text |-> ErrorText(Absent, 0, Absent, Absent, Absent)]

Thrown(text) == [threw |-> TRUE, text |-> text]

\* Nothing verified yet.
NoError == [by |-> "none", result |-> Returned]

NoOp == [op |-> "none", key |-> Absent, kind |-> "none", ref |-> None, ent |-> None]

Outcome(op, key, kind, ref, ent) ==
  [op |-> op, key |-> key, kind |-> kind, ref |-> ref, ent |-> ent]

\* ---------------------------------------------------- the cache on its own

CacheInit ==
  /\ cache = <<>>
  /\ limit \in 0..MaxLimit
  /\ last = NoOp
  /\ sfThrows = FALSE
  /\ chanHeap = <<>> /\ channels = <<>>
  /\ guildHeap = <<>> /\ guilds = <<>>
  /\ userHeap = <<>> /\ users = <<>>
  /\ msgHeap = <<>>
  /\ pending = <<>>
  /\ options = Absent
  /\ request = NoRequest
  /\ raised = NoError

CacheSet(k, v) ==
  /\ cache' = LMSet(cache, limit, k, v)
  /\ last' = Outcome("set", k,
                     IF LMHas(cache, k) THEN "replaced"
                     ELSE IF limit > 0 /\ LMSize(cache) >= limit THEN "evicting"
                     ELSE "inserted",
                     v, None)
  /\ UNCHANGED <<limit, env, entities, pending>>

CacheGet(k) ==
  /\ last' = Outcome("get", k, IF LMHas(cache, k) THEN "found" ELSE "absent",
                     LMGet(cache, k), None)
  /\ UNCHANGED <<cache, limit, env, entities, pending>>

CacheDelete(k) ==
  /\ cache' = LMDelete(cache, k)
  /\ last' = Outcome("delete", k, IF LMHas(cache, k) THEN "found" ELSE "absent",
                     None, None)
  /\ UNCHANGED <<limit, env, entities, pending>>

CacheNext ==
  \/ \E k \in CacheKeys, v \in 1..MaxVal : CacheSet(k, v)
  \/ \E k \in CacheKeys : CacheGet(k)
  \/ \E k \in CacheKeys : CacheDelete(k)

SpecCache == CacheInit /\ [][CacheNext]_vars

\* ------------------------------------------------------ payloads of a run

UserPayloads == [id : UserIds, username : Usernames]

GuildPayloads == [id : GuildIds]

\* Channel payloads: whole, partial (no type), without an id, and undefined.
ChannelPayloads ==
  [id : ChannelIds, name : Names, type : {"0"}]
    \cup [id : ChannelIds, name : Names]
    \cup [name : Names]
    \cup {Undefined}

\* The channel payloads of a run that is about messages and their relations.
LinkedChannelPayloads == [id : {"10"}, name : {"general"}, type : {"0"}]

MessagePayloads ==
  [id : MessageIds, channel_id : {"10"}, author : UserPayloads,
   content : {"hi"}]
    \cup [id : MessageIds, channel_id : {"10"}, guild_id : GuildIds,
          author : UserPayloads, content : {"hi"}]

\* Gateway updates of a message: partial payloads, and none at all.
MessageUpdates ==
  [id : MessageIds, content : Contents] \cup {Undefined}

\* ------------------------------------------------------------- the client

Init ==
  /\ cache = <<>>
  /\ limit \in 0..MaxClientLimit
  /\ last = NoOp
  /\ sfThrows = FALSE
  /\ chanHeap = <<>> /\ channels = <<>>
  /\ guildHeap = <<>> /\ guilds = <<>>
  /\ userHeap = <<>> /\ users = <<>>
  /\ msgHeap = <<>>
  /\ pending = <<>>
  /\ options = Absent
  /\ request = NoRequest
  /\ raised = NoError

\* client.users.updateOrSet(data.id, data), on a user payload from the gateway.
UpsertUser(data) ==
  LET r == updateOrSet(userHeap, users, limit, data.id, data,
                       Spread(userHeap[LMGet(users, data.id)], data))
  IN  /\ LMHas(users, data.id) \/ Len(userHeap) < MaxUsers
      /\ userHeap' = r.heap
      /\ users' = r.map
      /\ last' = Outcome("users.updateOrSet", Absent, "entity", None, None)
      /\ UNCHANGED <<cache, limit, env, chanHeap, channels, guildHeap,
                     guilds, msgHeap, pending>>

\* client.guilds.updateOrSet(data.id, data); a new guild has no members cached.
UpsertGuild(data) ==
  LET old == guildHeap[LMGet(guilds, data.id)]
      r == updateOrSet(guildHeap, guilds, limit, data.id,
                       [id |-> data.id, members |-> {}],
                       [old EXCEPT !.id = data.id])
  IN  /\ LMHas(guilds, data.id) \/ Len(guildHeap) < MaxGuilds
      /\ guildHeap' = r.heap
      /\ guilds' = r.map
      /\ last' = Outcome("guilds.updateOrSet", Absent, "entity", None, None)
      /\ UNCHANGED <<cache, limit, env, chanHeap, channels, userHeap,
                     users, msgHeap, pending>>

\* guild.members.cache.set(u, member), on a cached guild.
GuildMemberAdd(k, u) ==
  /\ LMHas(guilds, k)
  /\ guildHeap' = [guildHeap EXCEPT ![LMGet(guilds, k)].members = @ \cup {u}]
  /\ last' = Outcome("members.set", Absent, "entity", None, None)
  /\ UNCHANGED <<cache, limit, env, chanHeap, channels, guilds, userHeap,
                 users, msgHeap, pending>>

\* client.channels.updateOrSet(data.id, data), the new Channel being given the
\* Guild object g. A payload without an identity field is refused whole.
UpsertChannel(data, g) ==
  IF IsUndefined(data) \/ "id" \notin DOMAIN data
  THEN /\ last' = Outcome("channels.updateOrSet", Absent, "MalformedPayload", None, None)
       /\ UNCHANGED <<cache, limit, env, entities, pending>>
  ELSE
    LET made == Channel_constructor(data, g, sfThrows)
        merged == Channel_parseData(chanHeap[LMGet(channels, data.id)], data, sfThrows)
        r == updateOrSet(chanHeap, channels, limit, data.id, made.obj, merged.obj)
    IN  /\ LMHas(channels, data.id) \/ Len(chanHeap) < MaxChannels
        /\ chanHeap' = r.heap
        /\ channels' = r.map
        /\ last' = Outcome("channels.updateOrSet", data.id, "entity", r.ref, None)
        /\ UNCHANGED <<cache, limit, env, guildHeap, guilds, userHeap,
                       users, msgHeap, pending>>

\* manager.remove(id): the remote service reported the entity deleted.
RemoveGuild(k) ==
  /\ LMHas(guilds, k)
  /\ guilds' = LMDelete(guilds, k)
  /\ last' = Outcome("guilds.remove", Absent, "removed", None, None)
  /\ UNCHANGED <<cache, limit, env, chanHeap, channels, guildHeap,
                 userHeap, users, msgHeap, pending>>

RemoveChannel(k) ==
  /\ LMHas(channels, k)
  /\ channels' = LMDelete(channels, k)
  /\ last' = Outcome("channels.remove", Absent, "removed", None, None)
  /\ UNCHANGED <<cache, limit, env, chanHeap, guildHeap, guilds,
                 userHeap, users, msgHeap, pending>>

RemoveUser(k) ==
  /\ LMHas(users, k)
  /\ users' = LMDelete(users, k)
  /\ last' = Outcome("users.remove", Absent, "removed", None, None)
  /\ UNCHANGED <<cache, limit, env, chanHeap, channels, guildHeap, guilds,
                 userHeap, msgHeap, pending>>

\* A message arrives: new Message(client, data).
CreateMessage(data) ==
  /\ Len(msgHeap) < MaxMessages
  /\ msgHeap' = Append(msgHeap, Message_constructor(data))
  /\ last' = Outcome("new Message", data.id, "entity", Len(msgHeap) + 1, None)
  /\ UNCHANGED <<cache, limit, env, chanHeap, channels, guildHeap, guilds,
                 userHeap, users, pending>>

\* A gateway update of a message: message.parseData(data).
UpdateMessage(m, data) ==
  /\ msgHeap' = [msgHeap EXCEPT ![m] = Message_parseData(@, data)]
  /\ last' = Outcome("Message.parseData", msgHeap[m].data.id, "entity", m, m)
  /\ UNCHANGED <<cache, limit, env, chanHeap, channels, guildHeap, guilds,
                 userHeap, users, pending>>

\* ------------------------------------------------- Message's accessors

\* get id()
Message_id(m) == msgHeap[m].data.id

\* get channelId()
Message_channelId(m) == Field(msgHeap[m].data, "channel_id")

\* get channel()
Message_channel(m) ==
  IF Message_channelId(m) # Absent THEN LMGet(channels, Message_channelId(m)) ELSE None

\* this.channel?.guild
Message_channelGuild(m) ==
  IF Message_channel(m) = None THEN None ELSE chanHeap[Message_channel(m)].guild

\* get guildId()
Message_guildId(m) ==
  IF Field(msgHeap[m].data, "guild_id") # Absent
  THEN msgHeap[m].data.guild_id
  ELSE IF Message_channelGuild(m) = None THEN Absent
       ELSE guildHeap[Message_channelGuild(m)].id

\* A plausible slip: the guild is resolved through the channel only.
Message_guildThroughChannel(m) ==
  IF Message_channel(m) = None THEN None
  ELSE IF LMGet(guilds, Message_guildId(m)) # None
       THEN LMGet(guilds, Message_guildId(m))
       ELSE Message_channelGuild(m)

\* get guild()
Message_guild(m) ==
  IF Message_guildId(m) # Absent
  THEN IF LMGet(guilds, Message_guildId(m)) # None
       THEN LMGet(guilds, Message_guildId(m))
       ELSE Message_channelGuild(m)
  ELSE None

\* A plausible slip: the getter constructs and stores a User on every read.
Message_authorFresh(m) ==
  LET author == msgHeap[m].data.author
  IN  [heap |-> Append(userHeap, author),
       map  |-> LMSet(users, limit, author.id, Len(userHeap) + 1),
       ref  |-> Len(userHeap) + 1]

\* get author(): the cached user, or the one updateOrSet makes of data.author.
Message_author(m) ==
  LET author == msgHeap[m].data.author
  IN  IF LMHas(users, author.id)
      THEN [heap |-> userHeap, map |-> users, ref |-> LMGet(users, author.id)]
      ELSE updateOrSet(userHeap, users, limit, author.id, author,
                       Spread(userHeap[LMGet(users, author.id)], author))

\* Whether the users manager has room for what get author() may construct.
AuthorFits(m) ==
  LMHas(users, msgHeap[m].data.author.id) \/ Len(userHeap) < MaxUsers

ReadChannel(m) ==
  /\ last' = Outcome("Message.channel", Message_channelId(m),
                     IF Message_channel(m) = None THEN "absent" ELSE "entity",
                     Message_channel(m), m)
  /\ UNCHANGED <<cache, limit, env, entities, pending>>

ReadGuild(m) ==
  /\ last' = Outcome("Message.guild", Message_guildId(m),
                     IF Message_guild(m) = None THEN "absent" ELSE "entity",
                     Message_guild(m), m)
  /\ UNCHANGED <<cache, limit, env, entities, pending>>

ReadAuthor(m) ==
  LET r == Message_author(m)
  IN  /\ AuthorFits(m)
      /\ userHeap' = r.heap
      /\ users' = r.map
      /\ last' = Outcome("Message.author", msgHeap[m].data.author.id,
                         IF LMHas(users, msgHeap[m].data.author.id)
                         THEN "entity" ELSE "constructed",
                         r.ref, m)
      /\ UNCHANGED <<cache, limit, env, chanHeap, channels, guildHeap,
                     guilds, msgHeap, pending>>

\* get member(): undefined without a guild; else the guild's cached member for
\* this.author.id, or a new GuildMember.
ReadMember(m) ==
  IF Message_guild(m) = None
  THEN /\ last' = Outcome("Message.member", Absent, "absent", None, m)
       /\ UNCHANGED <<cache, limit, env, entities, pending>>
  ELSE
    LET r == Message_author(m)
        uid == r.heap[r.ref].id
    IN  /\ AuthorFits(m)
        /\ userHeap' = r.heap
        /\ users' = r.map
        /\ last' = Outcome("Message.member", uid,
                           IF uid \in guildHeap[Message_guild(m)].members
                           THEN "entity" ELSE "constructed",
                           Message_guild(m), m)
        /\ UNCHANGED <<cache, limit, env, chanHeap, channels, guildHeap,
                       guilds, msgHeap, pending>>

\* ------------------------------------------------- outbound operations

Call(op, ent, target, body) ==
  [op |-> op, ent |-> ent, target |-> target, body |-> body]

Drop(q, i) == SubSeq(q, 1, i - 1) \o SubSeq(q, i + 1, Len(q))

\* A plausible slip: the edit is applied to the cached message before the
\* remote service has answered.
Message_editOptimistic(m, content) ==
  /\ Len(pending) < MaxPending
  /\ pending' = Append(pending, Call("Message.edit", m, Message_id(m), content))
  /\ msgHeap' = [msgHeap EXCEPT ![m].data.content = content]
  /\ last' = Outcome("Message.edit", Message_id(m), "pending", None, m)
  /\ UNCHANGED <<cache, limit, env, chanHeap, channels, guildHeap, guilds,
                 userHeap, users>>

\* edit(content): client.api.editMessage(channelId, id, options)
Message_edit(m, content) ==
  /\ Len(pending) < MaxPending
  /\ pending' = Append(pending, Call("Message.edit", m, Message_id(m), content))
  /\ last' = Outcome("Message.edit", Message_id(m), "pending", None, m)
  /\ UNCHANGED <<cache, limit, env, entities>>

\* delete(reason): client.api.deleteMessage(channelId, id, reason)
Message_delete(m) ==
  /\ Len(pending) < MaxPending
  /\ pending' = Append(pending, Call("Message.delete", m, Message_id(m), Absent))
  /\ last' = Outcome("Message.delete", Message_id(m), "pending", None, m)
  /\ UNCHANGED <<cache, limit, env, entities>>

\* react(emoji): client.api.createReaction(channelId, id, emoji)
Message_react(m) ==
  /\ Len(pending) < MaxPending
  /\ pending' = Append(pending, Call("Message.react", m, Message_id(m), "emoji"))
  /\ last' = Outcome("Message.react", Message_id(m), "pending", None, m)
  /\ UNCHANGED <<cache, limit, env, entities>>

\* A plausible slip: delete() starts to clear the channel's fields before its
\* await, leaving the rest for after the answer.
Channel_deleteClearing(c) ==
  /\ Len(pending) < MaxPending
  /\ pending' = Append(pending, Call("Channel.delete", c, chanHeap[c].id, Absent))
  /\ chanHeap' = [chanHeap EXCEPT ![c].name = Absent]
  /\ last' = Outcome("Channel.delete", chanHeap[c].id, "pending", None, c)
  /\ UNCHANGED <<cache, limit, env, channels, guildHeap, guilds, userHeap,
                 users, msgHeap>>

\* A plausible slip: delete() also drops the channel from the channel cache.
Channel_deleteUncaching(c) ==
  /\ Len(pending) < MaxPending
  /\ pending' = Append(pending, Call("Channel.delete", c, chanHeap[c].id, Absent))
  /\ channels' = LMDelete(channels, chanHeap[c].id)
  /\ last' = Outcome("Channel.delete", chanHeap[c].id, "pending", None, c)
  /\ UNCHANGED <<cache, limit, env, chanHeap, guildHeap, guilds, userHeap,
                 users, msgHeap>>

\* Channel.delete(reason), up to its await: the DELETE request is made.
Channel_delete(c) ==
  /\ Len(pending) < MaxPending
  /\ pending' = Append(pending, Call("Channel.delete", c, chanHeap[c].id, Absent))
  /\ last' = Outcome("Channel.delete", chanHeap[c].id, "pending", None, c)
  /\ UNCHANGED <<cache, limit, env, entities>>

\* The remote service rejects operation i: the rejection reaches the caller.
RemoteReject(i) ==
  /\ pending' = Drop(pending, i)
  /\ last' = Outcome(pending[i].op, pending[i].target, "rejected", None, pending[i].ent)
  /\ UNCHANGED <<cache, limit, env, entities>>

\* The remote service answers a Message operation: the caller gets the answer.
MessageResolve(i) ==
  /\ pending[i].op # "Channel.delete"
  /\ pending' = Drop(pending, i)
  /\ last' = Outcome(pending[i].op, pending[i].target, "resolved", None, pending[i].ent)
  /\ UNCHANGED <<cache, limit, env, entities>>

\* Channel.delete after its await: new Channel(this.client, data, this.guild).
ChannelDeleteResolve(i, data) ==
  LET made == Channel_constructor(data, chanHeap[pending[i].ent].guild, sfThrows)
  IN  /\ pending[i].op = "Channel.delete"
      /\ pending' = Drop(pending, i)
      /\ IF made.threw
         THEN /\ last' = Outcome("Channel.delete", pending[i].target, "threw",
                                 None, pending[i].ent)
              /\ UNCHANGED chanHeap
         ELSE /\ Len(chanHeap) < MaxChannels
              /\ chanHeap' = Append(chanHeap, made.obj)
              /\ last' = Outcome("Channel.delete", pending[i].target, "resolved",
                                 Len(chanHeap) + 1, pending[i].ent)
      /\ UNCHANGED <<cache, limit, env, channels, guildHeap, guilds,
                     userHeap, users, msgHeap>>

\* The Guild objects a caller can hand to a new Channel: none, or a cached one.
GuildArgs == {None} \cup {guilds[i].value : i \in 1..Len(guilds)}

Next ==
  \/ \E data \in UserPayloads : UpsertUser(data)
  \/ \E data \in GuildPayloads : UpsertGuild(data)
  \/ \E k \in GuildIds, u \in UserIds : GuildMemberAdd(k, u)
  \/ \E data \in LinkedChannelPayloads, g \in GuildArgs : UpsertChannel(data, g)
  \/ \E k \in GuildIds : RemoveGuild(k)
  \/ \E k \in ChannelIds : RemoveChannel(k)
  \/ \E k \in UserIds : RemoveUser(k)
  \/ \E data \in MessagePayloads : CreateMessage(data)
  \/ \E m \in 1..Len(msgHeap) : ReadChannel(m)
  \/ \E m \in 1..Len(msgHeap) : ReadGuild(m)
  \/ \E m \in 1..Len(msgHeap) : ReadAuthor(m)
  \/ \E m \in 1..Len(msgHeap) : ReadMember(m)

\* Ingestion and relation reads: the client without its outbound operations.
Spec == Init /\ [][Next]_vars

\* Ingestion of channels and messages with the outbound operations on them.
RemoteInit ==
  /\ cache = <<>>
  /\ limit \in 0..MaxClientLimit
  /\ last = NoOp
  /\ sfThrows \in BOOLEAN
  /\ chanHeap = <<>> /\ channels = <<>>
  /\ guildHeap = <<>> /\ guilds = <<>>
  /\ userHeap = <<>> /\ users = <<>>
  /\ msgHeap = <<>>
  /\ pending = <<>>
  /\ options = Absent
  /\ request = NoRequest
  /\ raised = NoError

RemoteNext ==
  \/ \E data \in ChannelPayloads : UpsertChannel(data, None)
  \/ \E k \in ChannelIds : RemoveChannel(k)
  \/ \E data \in MessagePayloads : CreateMessage(data)
  \/ \E m \in 1..Len(msgHeap), data \in MessageUpdates : UpdateMessage(m, data)
  \/ \E m \in 1..Len(msgHeap), c \in Contents : Message_edit(m, c)
  \/ \E m \in 1..Len(msgHeap) : Message_delete(m)
  \/ \E m \in 1..Len(msgHeap) : Message_react(m)
  \/ \E c \in 1..Len(chanHeap) : Channel_delete(c)
  \/ \E i \in 1..Len(pending) : RemoteReject(i)
  \/ \E i \in 1..Len(pending) : MessageResolve(i)
  \/ \E i \in 1..Len(pending), data \in ChannelPayloads : ChannelDeleteResolve(i, data)

SpecRemote == RemoteInit /\ [][RemoteNext]_vars

\* client.options.failIfNotExists: not set, or set to true or to false.
ClientOptions == {Absent, "true", "false"}

\* replyOptions.messageReference, as reply(content) fills it in.
MessageReference(m) ==
  [messageId |-> Message_id(m),
   channelId |-> Message_channelId(m),
   guildId |-> Message_guildId(m),
   failIfNotExists |-> IF options = Absent THEN "false" ELSE options]

\* A plausible slip: reply posts to the channel id whether or not the channel
\* is cached.
Message_replyUnguarded(m, content) ==
  /\ Len(pending) < MaxPending
  /\ pending' = Append(pending, Call("Channel.send", Message_channel(m),
                                     Message_channelId(m),
                                     [content |-> content,
                                      messageReference |-> MessageReference(m)]))
  /\ last' = Outcome("Message.reply", Message_id(m), "pending", Message_channel(m), m)
  /\ UNCHANGED <<cache, limit, env, entities>>

\* reply(content): this.channel?.send(replyOptions); Channel.send makes one
\* create-message request on that channel.
Message_reply(m, content) ==
  IF Message_channel(m) = None
  THEN /\ last' = Outcome("Message.reply", Message_id(m), "absent", None, m)
       /\ UNCHANGED <<cache, limit, env, entities, pending>>
  ELSE /\ Len(pending) < MaxPending
       /\ pending' = Append(pending, Call("Channel.send", Message_channel(m),
                                          chanHeap[Message_channel(m)].id,
                                          [content |-> content,
                                           messageReference |-> MessageReference(m)]))
       /\ last' = Outcome("Message.reply", Message_id(m), "pending",
                          Message_channel(m), m)
       /\ UNCHANGED <<cache, limit, env, entities>>

\* The client with its option set or not, before any payload has arrived.
ReplyInit ==
  /\ cache = <<>>
  /\ limit \in 0..MaxClientLimit
  /\ last = NoOp
  /\ sfThrows = FALSE
  /\ chanHeap = <<>> /\ channels = <<>>
  /\ guildHeap = <<>> /\ guilds = <<>>
  /\ userHeap = <<>> /\ users = <<>>
  /\ msgHeap = <<>>
  /\ pending = <<>>
  /\ options \in ClientOptions
  /\ request = NoRequest
  /\ raised = NoError

ReplyNext ==
  \/ \E data \in GuildPayloads : UpsertGuild(data)
  \/ \E data \in LinkedChannelPayloads, g \in GuildArgs : UpsertChannel(data, g)
  \/ \E k \in GuildIds : RemoveGuild(k)
  \/ \E k \in ChannelIds : RemoveChannel(k)
  \/ \E data \in MessagePayloads : CreateMessage(data)
  \/ \E m \in 1..Len(msgHeap), c \in Contents : Message_reply(m, c)
  \/ \E i \in 1..Len(pending) : RemoteReject(i)
  \/ \E i \in 1..Len(pending) : MessageResolve(i)

\* Messages, their channels and guilds, and replies to the messages.
SpecReply == ReplyInit /\ [][ReplyNext]_vars

\* ------------------------------------------ the transport's verification

Endpoints == {"/channels/10", "/channels/10/messages/m1"}

Methods == {"GET", "DELETE"}

StatusCodes == {200, 400, 401, 403, 404, 500}

Bodies == {Body("undefined", ""), Body("null", ""), Body("string", "{\"content\":\"hi\"}"),
           Body("object", "{\"file\":1}")}

JsonCodes == {0, 50001}

JsonMessages == {"", "Missing Access"}

JsonResponses ==
  [code : JsonCodes, message : JsonMessages] \cup [code : JsonCodes]
    \cup [message : JsonMessages] \cup [id : ChannelIds]

\* `${data}`: String(data) of a template string.
TemplateString(data) ==
  CASE data.kind = "undefined" -> "undefined"
    [] data.kind = "null" -> "null"
    [] data.kind = "string" -> data.text
    [] OTHER -> "[object Object]"

\* data ?? 'empty', interpolated: only undefined and null are nullish.
OrEmpty(data) ==
  IF data.kind \in {"undefined", "null"} THEN "empty" ELSE TemplateString(data)

\* typeof data === 'object' ? JSON.stringify(data) : data ?? 'empty'
\* (typeof null is 'object', and JSON.stringify(null) is "null").
StringifiedOrEmpty(data) ==
  IF data.kind \in {"object", "null"}
  THEN (IF data.kind = "null" THEN "null" ELSE data.text)
  ELSE OrEmpty(data)

\* A plausible slip: the switch has no case for 403.
verifyForStatusCodeWithout403(endpoint, data, code, method) ==
  CASE code = 400 -> Thrown(ErrorText("Bad Request", 400, endpoint, method, OrEmpty(data)))
    [] code = 401 -> Thrown(ErrorText("Not Authorized", 401, endpoint, method, OrEmpty(data)))
    [] code = 404 -> Thrown(ErrorText("Not Found", 404, endpoint, method, OrEmpty(data)))
    [] OTHER -> Returned

verifyForStatusCode(endpoint, data, code, method) ==
  CASE code = 400 -> Thrown(ErrorText("Bad Request", 400, endpoint, method, OrEmpty(data)))
    [] code = 401 -> Thrown(ErrorText("Not Authorized", 401, endpoint, method, OrEmpty(data)))
    [] code = 403 -> Thrown(ErrorText("Missing Permissions", 403, endpoint, method, OrEmpty(data)))
    [] code = 404 -> Thrown(ErrorText("Not Found", 404, endpoint, method, OrEmpty(data)))
    [] OTHER -> Returned

\* JavaScript truthiness of a number and of a string.
TruthyNumber(n) == n # 0

TruthyString(t) == t # ""

\* jsonResponse.code && jsonResponse.message: a field the response does not
\* name is undefined, which is falsy.
verifyForJSONStatusCode(jsonResponse, endpoint, data, method) ==
  IF /\ "code" \in DOMAIN jsonResponse /\ TruthyNumber(jsonResponse.code)
     /\ "message" \in DOMAIN jsonResponse /\ TruthyString(jsonResponse.message)
  THEN Thrown(ErrorText(jsonResponse.message, jsonResponse.code, endpoint, method,
                        StringifiedOrEmpty(data)))
  ELSE Returned

\* A response to a request arrives at the transport.
Respond(endpoint, method, data, code, json) ==
  /\ request' = [endpoint |-> endpoint, method |-> method, data |-> data,
                 code |-> code, json |-> json]
  /\ raised' = NoError
  /\ UNCHANGED <<cache, limit, last, sfThrows, options, entities, pending>>

\* verifyForStatusCode(endpoint, data, response.status, method)
VerifyStatus ==
  /\ request # NoRequest
  /\ raised' = [by |-> "verifyForStatusCode",
                result |-> verifyForStatusCode(request.endpoint, request.data,
                                               request.code, request.method)]
  /\ UNCHANGED <<cache, limit, last, sfThrows, options, request, entities, pending>>

\* verifyForJSONStatusCode(json, endpoint, data, method)
VerifyJSON ==
  /\ request # NoRequest
  /\ raised' = [by |-> "verifyForJSONStatusCode",
                result |-> verifyForJSONStatusCode(request.json, request.endpoint,
                                                   request.data, request.method)]
  /\ UNCHANGED <<cache, limit, last, sfThrows, options, request, entities, pending>>

VerifyNext ==
  \/ \E e \in Endpoints, m \in Methods, d \in Bodies, c \in StatusCodes,
        j \in JsonResponses : Respond(e, m, d, c, j)
  \/ VerifyStatus
  \/ VerifyJSON

\* The transport's two checks of a response, on every response it can get.
SpecVerify == Init /\ [][VerifyNext]_vars

\* ------------------------------------------------------------------ claims

KeySet(m) == {m[i].key : i \in 1..Len(m)}

\* C3: FIFO eviction by first insertion. A set of a new key into a full cache
\* (capacity N > 0) drops exactly the oldest surviving entry and keeps the
\* others in their order, so after N+1 distinct insertions the first key is
\* absent and the N later ones are present; a set of a key already present
\* changes only that key's value and leaves every key at its position.
FifoStep ==
  last'.op = "set" =>
    LET k == last'.key
        v == last'.ref
    IN  IF LMHas(cache, k)
        THEN /\ LMKeys(cache') = LMKeys(cache)
             /\ \A i \in 1..Len(cache) :
                  cache'[i].value = IF cache[i].key = k THEN v ELSE cache[i].value
        ELSE IF limit > 0 /\ Len(cache) = limit
        THEN /\ ~LMHas(cache', Head(cache).key)
             /\ \A i \in 2..Len(cache) : cache'[i - 1] = cache[i]
             /\ cache'[Len(cache')] = [key |-> k, value |-> v]
             /\ Len(cache') = limit
        ELSE cache' = Append(cache, [key |-> k, value |-> v])

FifoByFirstInsertion == [][FifoStep]_vars

\* C3 witness: a new key has just been set into a full cache of capacity 2.
FifoEvictionHappened ==
  /\ limit = 2
  /\ last.op = "set" /\ last.kind = "evicting"
  /\ Len(cache) = 2 /\ cache[2].key = last.key

\* C4: capacity bound with minimal eviction. With N > 0 the size never
\* exceeds N; a set of a new key into a full cache removes exactly one key,
\* any other set removes none, and with N = 0 no set ever removes a key.
CapacityStep ==
  last'.op = "set" =>
    LET gone == KeySet(cache) \ KeySet(cache')
        full == limit > 0 /\ Len(cache) = limit
    IN  /\ LMHas(cache', last'.key)
        /\ Cardinality(gone) =
             IF full /\ ~LMHas(cache, last'.key) THEN 1 ELSE 0

CapacityBound ==
  /\ [](limit > 0 => LMSize(cache) <= limit)
  /\ [][CapacityStep]_vars

\* C4 witness: a full cache of capacity 1 has just taken a new key.
CapacityEvictionHappened ==
  /\ limit = 1
  /\ last.op = "set" /\ last.kind = "evicting"
  /\ LMSize(cache) = 1

\* C1: Channel partial merge. For every channel and every update payload, a
\* field the payload does not name keeps its value: in particular the channel
\* made of {id:"10", name:"general", type:0} keeps its type when
\* {id:"10", name:"general-renamed"} is applied to it.
ChannelPartialMerge ==
  \A c \in 1..Len(chanHeap) : \A data \in ChannelPayloads \ {Undefined} :
    LET r == Channel_parseData(chanHeap[c], data, sfThrows)
    IN  ~r.threw =>
          \A f \in {"id", "name", "type"} :
            f \notin DOMAIN data => r.obj[f] = chanHeap[c][f]

\* C2: single representative. A manager's cache holds one entry per key, the
\* entity under a key carries that key as its id, and as long as a key stays
\* cached every upsert (Message.author's included) leaves the same object
\* under it.
OneEntryPerKey(heap, map) ==
  /\ \A i, j \in 1..Len(map) : map[i].key = map[j].key => i = j
  /\ \A i \in 1..Len(map) : heap[map[i].value].id = map[i].key

SameInstance(map, next) ==
  \A i \in 1..Len(map) :
    LMHas(next, map[i].key) => LMGet(next, map[i].key) = map[i].value

SingleRepresentative ==
  /\ [](/\ OneEntryPerKey(userHeap, users)
        /\ OneEntryPerKey(chanHeap, channels)
        /\ OneEntryPerKey(guildHeap, guilds))
  /\ [][/\ SameInstance(users, users')
        /\ SameInstance(channels, channels')
        /\ SameInstance(guilds, guilds')]_vars

\* C2 witness: Message.author returns the one User ever constructed for its
\* key, which is the entry of the users cache.
AuthorIsTheUpsertedUser ==
  /\ last.op = "Message.author" /\ last.kind = "entity" /\ last.ref = 1
  /\ Len(userHeap) = 1
  /\ LMGet(users, userHeap[1].id) = 1

\* C5: relation resolution is a pure read. Reading author, channel, guild or
\* member of a message leaves every manager's cache as it was.
RelationReadsArePure ==
  [][last'.op \in {"Message.author", "Message.channel", "Message.guild",
                   "Message.member"}
       => /\ users' = users
          /\ channels' = channels
          /\ guilds' = guilds
          /\ guildHeap' = guildHeap]_vars

\* C6 as claimed: a message whose channel is not cached resolves both its
\* channel and its guild to absent.
MissingChannelMeansNoGuild ==
  \A m \in 1..Len(msgHeap) :
    ~LMHas(channels, Message_channelId(m))
      => Message_channel(m) = None /\ Message_guild(m) = None

\* C6, amended: a message whose channel is not cached resolves its channel to
\* absent, and its guild to absent unless the message's own guild_id names a
\* guild in the guilds cache, which is then the guild it resolves to.
MissingChannelLink ==
  \A m \in 1..Len(msgHeap) :
    ~LMHas(channels, Message_channelId(m))
      => /\ Message_channel(m) = None
         /\ Message_guild(m) = LMGet(guilds, Field(msgHeap[m].data, "guild_id"))

\* C6 witness: the guild of a message was read present while its channel is
\* not cached.
GuildReadWithoutChannel ==
  /\ last.op = "Message.guild" /\ last.kind = "entity"
  /\ ~LMHas(channels, Message_channelId(last.ent))
  /\ last.ref = Message_guild(last.ent)

\* C7: no fabricated relations. Message.author and Message.member never hand
\* out an object constructed on the spot for a key their manager does not hold.
NoFabricatedRelations ==
  last.op \in {"Message.author", "Message.member"} => last.kind # "constructed"

\* C8: eviction is safe for referrers. A guild that message.guild or
\* channel.guild hands out is an entry of the guilds cache.
InCache(map, ref) == \E i \in 1..Len(map) : map[i].value = ref

EvictionSafeForReferrers ==
  /\ \A m \in 1..Len(msgHeap) :
       Message_guild(m) # None => InCache(guilds, Message_guild(m))
  /\ \A i \in 1..Len(channels) :
       chanHeap[channels[i].value].guild # None
         => InCache(guilds, chanHeap[channels[i].value].guild)

\* C9: a malformed payload is all-or-nothing. No Channel is ever constructed
\* from a payload without an identity field, so every Channel has an id.
MalformedPayloadCreatesNothing ==
  \A c \in 1..Len(chanHeap) : chanHeap[c].id # Absent

\* C10: rejected remote operations do not touch local state. The step that
\* rejects an operation hands the rejection to that operation's caller and
\* changes no entity and no cache; no step of Message.edit (the call, its
\* rejection, its resolution) changes a message.
RejectedLeavesState ==
  [][/\ last'.kind = "rejected"
          => /\ UNCHANGED entities
             /\ \E i \in 1..Len(pending) :
                  /\ pending' = Drop(pending, i)
                  /\ last'.op = pending[i].op
                  /\ last'.ent = pending[i].ent
     /\ last'.op \in {"Message.edit", "Message.delete", "Message.react"}
          => UNCHANGED entities
     /\ last'.op = "Channel.delete"
          => UNCHANGED <<channels, msgHeap>>
             /\ \A c \in 1..Len(chanHeap) : chanHeap'[c] = chanHeap[c]]_vars

\* C10 witness: an edit of a cached message to new content was rejected.
EditWasRejected ==
  /\ last.op = "Message.edit" /\ last.kind = "rejected"
  /\ msgHeap[last.ent].data.content = "hi"

\* C11: an entity's own delete() never removes it from its cache. Every step
\* of Message.delete or Channel.delete (the call, its success, its failure)
\* leaves the channel cache and every Message as they were, so the entity is
\* still present under the same key; and a key leaves the channel cache only
\* in a step of the manager's remove or of an upsert that evicts for capacity.
DeleteKeepsCacheEntry ==
  [][/\ last'.op \in {"Message.delete", "Channel.delete"}
        => /\ channels' = channels
           /\ msgHeap' = msgHeap
           /\ \A c \in 1..Len(chanHeap) : chanHeap'[c] = chanHeap[c]
     /\ \A k \in ChannelIds :
          LMHas(channels, k) /\ ~LMHas(channels', k)
          => last'.op \in {"channels.remove", "channels.updateOrSet"}]_vars

\* A Channel.delete has resolved and the channel is still cached under its key.
DeletedChannelStillCached ==
  /\ last.op = "Channel.delete"
  /\ last.kind = "resolved"
  /\ LMHas(channels, last.key)
  /\ LMGet(channels, last.key) = last.ent

\* C12: verifyForStatusCode raises an error exactly for the status codes 400,
\* 401, 403 and 404, and the error carries the endpoint, the method and the
\* request data, or 'empty' when the data is absent (undefined or null); for
\* every other status code it returns without raising.
StatusCodeVerification ==
  raised.by = "verifyForStatusCode"
    => /\ raised.result.threw <=> request.code \in {400, 401, 403, 404}
       /\ raised.result.threw
            => /\ raised.result.text.code = request.code
               /\ raised.result.text.endpoint = request.endpoint
               /\ raised.result.text.method = request.method
               /\ request.data.kind \in {"undefined", "null"}
                    => raised.result.text.data = "empty"
               /\ request.data.kind = "string"
                    => raised.result.text.data = request.data.text

\* A 403 response to a request without a body was verified and raised.
ForbiddenWithoutBodyRaised ==
  /\ raised.by = "verifyForStatusCode"
  /\ request.code = 403
  /\ request.data.kind = "undefined"
  /\ raised.result.threw
  /\ raised.result.text.data = "empty"

\* C13: for every response payload that carries a code and a message, whatever
\* the code's value (0 included), verifyForJSONStatusCode raises an error that
\* carries that message and code with the endpoint, the method and the request
\* data; for a payload that lacks a code or a message it returns without
\* raising.
JSONErrorVerification ==
  raised.by = "verifyForJSONStatusCode"
    => /\ raised.result.threw
            <=> {"code", "message"} \subseteq DOMAIN request.json
       /\ raised.result.threw
            => /\ raised.result.text.name = request.json.message
               /\ raised.result.text.code = request.json.code
               /\ raised.result.text.endpoint = request.endpoint
               /\ raised.result.text.method = request.method

\* C14: update atomicity under interleaving. The steps of the model are the
\* code's runs between suspension points (an await, a handler's return), so
\* the states between steps are all that a reader or another ingestion can
\* observe. In every step, with operations in flight or not, an entity that
\* changes goes from its state before a whole update to its state after it:
\* a Channel changes only in an ingestion step and becomes parseData of one
\* payload applied in full, and a Message becomes parseData of one payload
\* applied in full; no step leaves part of a payload merged.
WholeUpdatesOnly ==
  [][/\ \A c \in 1..Len(chanHeap) :
          chanHeap'[c] # chanHeap[c]
          => /\ last'.op = "channels.updateOrSet"
             /\ \E data \in ChannelPayloads :
                  /\ ~Channel_parseData(chanHeap[c], data, sfThrows).threw
                  /\ chanHeap'[c] = Channel_parseData(chanHeap[c], data, sfThrows).obj
     /\ \A m \in 1..Len(msgHeap) :
          msgHeap'[m] # msgHeap[m]
          => /\ last'.op = "Message.parseData"
             /\ \E data \in MessageUpdates :
                  msgHeap'[m] = Message_parseData(msgHeap[m], data)]_vars

\* A cached channel was updated while a Channel.delete was awaiting its answer.
UpdatedWhileDeleteInFlight ==
  /\ last.op = "channels.updateOrSet" /\ last.kind = "entity"
  /\ Len(pending) > 0
  /\ pending[1].op = "Channel.delete"
  /\ pending[1].ent = last.ref
  /\ chanHeap[last.ref].type = "UNKNOWN"

\* C15: re-ingestion of operation results. When Channel.delete resolves with
\* a payload, the entity handed back to the caller is the instance the channel
\* manager has cached under the payload's id, so no second object stands for
\* a key that is cached.
DeleteResultIsCachedInstance ==
  (last.op = "Channel.delete" /\ last.kind = "resolved")
    => /\ InCache(channels, last.ref)
       /\ \A c \in 1..Len(chanHeap) :
            (InCache(channels, c) /\ chanHeap[c].id = chanHeap[last.ref].id)
            => c = last.ref

\* The update payloads a Message can be given: any one field or several.
MessageMergePayloads ==
  MessageUpdates \cup [content : Contents] \cup [channel_id : ChannelIds]
    \cup [guild_id : GuildIds, content : Contents]

\* C16: Message partial-merge law. For every Message and every update payload,
\* after parseData every field the payload names has the payload's value and
\* every field it does not name has the value it had before (fields A=x, B=y
\* and a payload with only A=x2 give A=x2, B=y); an absent payload changes
\* nothing.
MessagePartialMerge ==
  \A m \in 1..Len(msgHeap) : \A data \in MessageMergePayloads :
    LET old == msgHeap[m].data
        new == Message_parseData(msgHeap[m], data).data
    IN  IF IsUndefined(data) THEN new = old
        ELSE /\ DOMAIN new = DOMAIN old \cup DOMAIN data
             /\ \A f \in DOMAIN data : new[f] = data[f]
             /\ \A f \in DOMAIN old \ DOMAIN data : new[f] = old[f]

\* A message was updated with a payload naming only id and content: the
\* content is the payload's and the channel id and author are the old ones.
ContentMergedChannelKept ==
  /\ last.op = "Message.parseData"
  /\ msgHeap[last.ent].data.content = "edited"
  /\ msgHeap[last.ent].data.channel_id = "10"
  /\ "author" \in DOMAIN msgHeap[last.ent].data

\* Update payloads whose id is any id, the entity's own or another one.
AnyIdChannelPayloads == [id : ChannelIds, name : Names, type : {"0"}]

AnyIdMessagePayloads == [id : MessageIds \cup {"m2"}, content : Contents]

\* C17: identity immutable under update. For every Channel and every Message
\* and every update payload, a payload whose id differs from the entity's id
\* included, the entity's id after parseData is its id before.
IdentityImmutable ==
  /\ \A c \in 1..Len(chanHeap) : \A data \in AnyIdChannelPayloads :
       Channel_parseData(chanHeap[c], data, sfThrows).obj.id = chanHeap[c].id
  /\ \A m \in 1..Len(msgHeap) : \A data \in AnyIdMessagePayloads :
       Message_parseData(msgHeap[m], data).data.id = msgHeap[m].data.id

\* C18: guild resolution is consistent with the guild key. Whenever
\* message.guild resolves to a guild, that guild's id equals message.guildId
\* (the message's own guild_id when it has one, otherwise the id of its cached
\* channel's guild).
GuildMatchesGuildId ==
  \A m \in 1..Len(msgHeap) :
    Message_guild(m) # None
    => guildHeap[Message_guild(m)].id = Message_guildId(m)

\* C19: reply depends on the cached channel. A reply to a message whose
\* channel is in the channel cache issues exactly one send, on that channel,
\* whose message reference names the message's id, channel id and guild id
\* and has failIfNotExists false unless the client option sets it; a reply to
\* a message whose channel is not cached issues no remote operation and
\* returns absent without throwing. Either way no entity changes.
ReplyNeedsCachedChannel ==
  [][last'.op = "Message.reply"
     => LET m == last'.ent
        IN  /\ UNCHANGED entities
            /\ IF Message_channel(m) = None
               THEN /\ pending' = pending
                    /\ last'.kind = "absent"
               ELSE /\ last'.kind = "pending"
                    /\ Len(pending') = Len(pending) + 1
                    /\ SubSeq(pending', 1, Len(pending)) = pending
                    /\ LET sent == pending'[Len(pending')]
                       IN  /\ sent.op = "Channel.send"
                           /\ sent.ent = Message_channel(m)
                           /\ sent.body.messageReference.messageId = Message_id(m)
                           /\ sent.body.messageReference.channelId = Message_channelId(m)
                           /\ sent.body.messageReference.guildId = Message_guildId(m)
                           /\ sent.body.messageReference.failIfNotExists
                                = (IF options = Absent THEN "false" ELSE options)]_vars

\* A reply was sent on the cached channel of a message in guild g1, by a
\* client that does not set failIfNotExists.
ReplySentWithDefault ==
  /\ last.op = "Message.reply" /\ last.kind = "pending"
  /\ options = Absent
  /\ Len(pending) = 1
  /\ pending[1].op = "Channel.send"
  /\ pending[1].body.messageReference.failIfNotExists = "false"
  /\ pending[1].body.messageReference.guildId = "g1"
============================================================================
